---- MODULE Spec2Model ----
(***************************************************************************)
(* One signaling session of server.py: AppServer.handle_ws running on the *)
(* asyncio loop, the WebRTCCamera it owns, the asyncio ready queue that    *)
(* run_coroutine_threadsafe feeds, and the GStreamer engine whose threads  *)
(* call the registered callbacks.                                          *)
(***************************************************************************)
EXTENDS Integers, Sequences, FiniteSets, TLC

\* ---------------------------------------------------------------- bounds
MaxEvents == 2      \* external events of one session: inbound frames and
                    \* errors posted on the bus together
MaxLocalIce == 1    \* local ICE candidates the engine discovers in one session

VARIABLES
    hpc,        \* position of handle_ws: "hello","start","loop","returned","raised"
    pipeline,   \* WebRTCCamera.pipeline: "None" or "P"
    webrtc,     \* WebRTCCamera.webrtc:   "None" or "W"
    transport,  \* the websocket's transport: "up" or "down"
    closed,     \* ws.closed
    inlog,      \* frames handle_ws has received, in order
    outH,       \* messages handle_ws itself has written to the channel, in order
    outB,       \* messages the bridged coroutines have written to the channel, in order
    ready,      \* asyncio ready queue: coroutines scheduled by run_coroutine_threadsafe
    loopState,  \* "running" or "closed" (web.run_app has returned)
    nHanded,    \* number of messages handed to _send_ws so far
    engState,   \* the Gst pipeline: "absent", "orphan" (built in part, then dropped),
                \* "PLAYING", "FAILED" (set_state(PLAYING) returned FAILURE), "NULL"
    cmds,       \* commands handle_ws has issued to the engine (asyncio context), in order
    cmdsEng,    \* commands the callbacks have issued to the engine (engine thread), in order
    promises,   \* create-offer promises whose change func has not run yet
    ocb,        \* on_offer_created in progress on the engine thread
    gather,     \* local ICE candidates the engine has still to report
    negFired,   \* on-negotiation-needed signals raised so far
    busPosted,  \* ERROR messages the engine has posted on the pipeline's bus and
                \* that no watch has dispatched
    engRaised,  \* an exception escaped a callback into the engine's thread
    cfg,        \* what build_pipeline reads: self.bitrate, self.force_sw, and whether
                \* the host provides v4l2h264enc (hw)
    enc         \* the encoder build_pipeline made: its path ("none","hw","sw") and
                \* the value given to its bitrate property, when one was given

vars == <<hpc, pipeline, webrtc, transport, closed, inlog, outH, outB, ready,
          loopState, nHanded, engState, cmds, cmdsEng, promises, ocb, gather,
          negFired, busPosted, engRaised, cfg, enc>>

chanVars == <<transport, closed, inlog, outH>>
camVars == <<pipeline, webrtc, cfg, enc>>
bridgeVars == <<ready, nHanded, outB>>
engVars == <<engState, cmds, cmdsEng, promises, ocb, gather, negFired, busPosted, engRaised>>

\* ------------------------------------------------------------- messages
\* Outbound signaling messages: type, text (error text or candidate), n (offer id).
Msg(t, x, k) == [type |-> t, text |-> x, n |-> k]

\* What reaches the channel: the message, who sent it (the handler or a bridged
\* coroutine), and for bridged ones the hand-over number and whether ws.closed
\* was already set when it was handed over.
Sent(m, v, i, l) == [type |-> m.type, text |-> m.text, n |-> m.n,
                     via |-> v, h |-> i, late |-> l]

\* Inbound frames, by what json.loads and data.get make of them.
Frame(t, s, c, i) == [type |-> t, sdp |-> s, cand |-> c, mline |-> i]

AnswerFrames == {Frame("answer", s, "", "") : s \in {"ok", "garbage"}}
\* candidate: "" (missing or empty), a string, or "#num" (a JSON number);
\* sdpMLineIndex: "0" or "x" (not an integer literal)
IceFrames == {Frame("ice", "", "a", "0"), Frame("ice", "", "b", "0"),
              Frame("ice", "", "", "0"), Frame("ice", "", "a", "x"),
              Frame("ice", "", "#num", "0")}
\* "nondict": a JSON text that is not an object, so data.get raises (line 324)
OtherFrames == {Frame(t, "", "", "") : t \in {"ping", "ready", "nondict"}}
Frames == AnswerFrames \cup IceFrames \cup OtherFrames

\* Engine commands: cmd, the context that issued it, and its argument.
Cmd(c, x, a, k) == [cmd |-> c, ctx |-> x, arg |-> a, n |-> k]

\* ------------------------------------------------------ pure conversions
\* GstSdp.sdp_message_new_from_text: OK only for well-formed text (line 235)
sdp_message_new_from_text(s) == IF s = "ok" THEN "OK" ELSE "EINVAL"

\* int(sdpMLineIndex) (line 337): the number, or -1 for the ValueError/TypeError
\* that a value which is no integer literal raises
IntOf(i) == IF i = "0" THEN 0 ELSE IF i = "1" THEN 1 ELSE -1

\* GObject marshalling of emit("add-ice-candidate", guint, gchararray):
\* a candidate that is not a str raises TypeError (line 244)
EmitAccepts(c) == c # "#num"

\* Python truthiness of data["ice"]["candidate"] (line 336)
Truthy(c) == c # ""

Count(s, P(_)) == Len(SelectSeq(s, P))

\* external events so far
Events == Len(inlog) + busPosted

\* ------------------------------------------------------------ WebRTCCamera
\* The camera object together with the engine it drives; exc is the exception
\* a method call ended with ("none" when it returned).
Cam == [pipeline |-> pipeline, webrtc |-> webrtc, engState |-> engState,
        cmds |-> cmds, cmdsEng |-> cmdsEng, promises |-> promises, exc |-> "none",
        cfg |-> cfg, enc |-> enc]

\* ------------------------------------------------------------ the encoder
DefaultBitrate == 2500000

\* the configuration of the command line's defaults on a host with the
\* hardware encoder
DefaultConfig == [bitrate |-> DefaultBitrate, force_sw |-> FALSE, hw |-> TRUE]

\* --bitrate is any int (type=int, no range check)
Bitrates == {-1, 0, 1, 500, 999, 1000, 1001, 1999, DefaultBitrate, 2500999}

Configs == [bitrate : Bitrates, force_sw : BOOLEAN, hw : BOOLEAN]

NoEncoder == [path |-> "none", set |-> FALSE, bitrate |-> 0]

Max(a, b) == IF a >= b THEN a ELSE b

\* the software encoder's bitrate without the floor of 1
EncoderNoFloor(c) ==
    IF ~c.force_sw /\ c.hw
    THEN [path |-> "hw", set |-> c.bitrate > 0,
          bitrate |-> IF c.bitrate > 0 THEN c.bitrate ELSE 0]
    ELSE [path |-> "sw", set |-> c.bitrate > 0,
          bitrate |-> IF c.bitrate > 0 THEN c.bitrate \div 1000 ELSE 0]

\* lines 98-119: v4l2h264enc unless software is forced or the element is
\* missing, with bitrate in bps (int() of an int: unchanged); else x264enc with
\* max(1, bitrate // 1000) kbps; the property is set only when bitrate > 0.
\* bitrate is the value handed to set_property (line 108 ignores a rejection).
Encoder(c) ==
    IF ~c.force_sw /\ c.hw
    THEN [path |-> "hw", set |-> c.bitrate > 0,
          bitrate |-> IF c.bitrate > 0 THEN c.bitrate ELSE 0]
    ELSE [path |-> "sw", set |-> c.bitrate > 0,
          bitrate |-> IF c.bitrate > 0 THEN Max(1, c.bitrate \div 1000) ELSE 0]

\* element.emit(...): the command goes on the log of the context that issues it
emit(c, cmd) ==
    IF cmd.ctx = "loop" THEN [c EXCEPT !.cmds = Append(@, cmd)]
    ELSE [c EXCEPT !.cmdsEng = Append(@, cmd)]

\* build_pipeline: res "early" raises before the encoder is made (lines 68-87),
\* "late" raises after webrtcbin.connect (lines 154-170); otherwise the handles
\* are assigned (lines 172-173).
\* build_pipeline that assigns the handles before the pad is requested and linked
build_pipeline_early_assign(c, res) ==
    IF res = "early" THEN [c EXCEPT !.exc = "build"]
    ELSE IF res = "late"
         THEN [c EXCEPT !.pipeline = "P", !.webrtc = "W", !.exc = "build",
                        !.engState = "orphan", !.enc = Encoder(c.cfg)]
         ELSE [c EXCEPT !.pipeline = "P", !.webrtc = "W", !.engState = "built",
                        !.enc = Encoder(c.cfg)]

build_pipeline(c, res) ==
    IF res = "early" THEN [c EXCEPT !.exc = "build"]
    ELSE IF res = "late"
         THEN [c EXCEPT !.exc = "build", !.engState = "orphan", !.enc = Encoder(c.cfg)]
         ELSE [c EXCEPT !.pipeline = "P", !.webrtc = "W", !.engState = "built",
                        !.enc = Encoder(c.cfg)]

\* start: build when there is no pipeline, then set_state(PLAYING); FAILURE raises.
start(c, res) ==
    LET b == IF c.pipeline = "None" THEN build_pipeline(c, res) ELSE c
    IN  IF b.exc # "none" THEN b
        ELSE LET s == emit(b, Cmd("set_state", "loop", "PLAYING", 0))
             IN  IF res = "FAILURE"
                 THEN [s EXCEPT !.engState = "FAILED", !.exc = "playing"]
                 ELSE [s EXCEPT !.engState = "PLAYING"]

\* stop that forgets to drop self.webrtc
stop_keep_webrtc(c) ==
    IF c.pipeline # "None"
    THEN [emit(c, Cmd("set_state", "loop", "NULL", 0))
             EXCEPT !.pipeline = "None", !.engState = "NULL"]
    ELSE c

\* stop without its guard on self.pipeline
stop_unguarded(c) ==
    [emit(c, Cmd("set_state", "loop", "NULL", 0))
        EXCEPT !.pipeline = "None", !.webrtc = "None", !.engState = "NULL"]

\* stop: set_state(NULL) and drop both handles, only when a pipeline is held.
stop(c) ==
    IF c.pipeline # "None"
    THEN [emit(c, Cmd("set_state", "loop", "NULL", 0))
             EXCEPT !.pipeline = "None", !.webrtc = "None", !.engState = "NULL"]
    ELSE c

\* _create_and_send_offer: emit create-offer with a promise whose change func is
\* on_offer_created; x is the context of the caller.
create_and_send_offer(c, x) ==
    [emit(c, Cmd("create-offer", x, "", 0)) EXCEPT !.promises = @ + 1]

\* renegotiate without its guard on self.webrtc
renegotiate_unguarded(c) == create_and_send_offer(c, "loop")

renegotiate(c) ==
    IF c.webrtc # "None" THEN create_and_send_offer(c, "loop") ELSE c

\* handle_sdp_answer that does not look at the parse result
handle_sdp_answer_unchecked(c, sdp) ==
    IF c.webrtc = "None" THEN c
    ELSE emit(c, Cmd("set-remote-description", "loop", sdp, 0))

handle_sdp_answer(c, sdp) ==
    IF c.webrtc = "None" THEN c
    ELSE IF sdp_message_new_from_text(sdp) # "OK" THEN [c EXCEPT !.exc = "sdp"]
    ELSE emit(c, Cmd("set-remote-description", "loop", sdp, 0))

\* handle_ice_candidate that skips a candidate equal to the one before it
handle_ice_candidate_dedup(c, candidate, mlineindex) ==
    IF c.webrtc # "None"
    THEN IF EmitAccepts(candidate)
         THEN IF /\ c.cmds # <<>>
                 /\ c.cmds[Len(c.cmds)] = Cmd("add-ice-candidate", "loop", candidate,
                                              mlineindex)
              THEN c
              ELSE emit(c, Cmd("add-ice-candidate", "loop", candidate, mlineindex))
         ELSE [c EXCEPT !.exc = "emit"]
    ELSE c

handle_ice_candidate(c, candidate, mlineindex) ==
    IF c.webrtc # "None"
    THEN IF EmitAccepts(candidate)
         THEN emit(c, Cmd("add-ice-candidate", "loop", candidate, mlineindex))
         ELSE [c EXCEPT !.exc = "emit"]
    ELSE c

\* ------------------------------------------------------------ the bridge
ChannelOpen == ~closed /\ transport = "up"

\* _send_ws that writes to the websocket from the calling thread
send_ws_direct(m) ==
    /\ outB' = Append(outB, Sent(m, "bridge", nHanded + 1, ~ChannelOpen))
    /\ nHanded' = nHanded + 1
    /\ UNCHANGED <<ready, engRaised>>

\* _send_ws that schedules the newest message ahead of the ones waiting
send_ws_lifo(m) ==
    IF loopState = "running"
    THEN /\ ready' = <<[msg |-> m, h |-> nHanded + 1, late |-> ~ChannelOpen]>> \o ready
         /\ nHanded' = nHanded + 1
         /\ UNCHANGED <<outB, engRaised>>
    ELSE /\ engRaised' = TRUE
         /\ UNCHANGED bridgeVars

\* _send_ws: run_coroutine_threadsafe appends the coroutine to the loop's ready
\* queue and returns at once; on a closed loop it raises RuntimeError.
send_ws(m) ==
    IF loopState = "running"
    THEN /\ ready' = Append(ready, [msg |-> m, h |-> nHanded + 1, late |-> ~ChannelOpen])
         /\ nHanded' = nHanded + 1
         /\ UNCHANGED <<outB, engRaised>>
    ELSE /\ engRaised' = TRUE
         /\ UNCHANGED bridgeVars

\* the coroutine _send: if not ws.closed: await ws.send_json(obj); a send on a
\* transport that is gone raises inside the future, which nobody reads.
send_coro(e) ==
    IF ChannelOpen
    THEN Append(outB, Sent(e.msg, "bridge", e.h, e.late))
    ELSE outB

\* ------------------------------------------------------------- handle_ws
SetCam(c) ==
    /\ pipeline' = c.pipeline
    /\ webrtc' = c.webrtc
    /\ engState' = c.engState
    /\ cmds' = c.cmds
    /\ cmdsEng' = c.cmdsEng
    /\ promises' = c.promises
    /\ enc' = c.enc
    /\ cfg' = cfg

\* handle_ws that goes on to the camera without sending the greeting
SendHello_skipped ==
    /\ hpc = "hello"
    /\ hpc' = "start"
    /\ UNCHANGED <<chanVars, camVars, bridgeVars, loopState, engVars>>

\* line 300: the greeting; a send on a lost transport raises before the camera exists
SendHello ==
    /\ hpc = "hello"
    /\ IF transport = "up"
       THEN outH' = Append(outH, Sent(Msg("hello", "ws-ready", 0), "handler", 0, FALSE))
            /\ hpc' = "start" /\ UNCHANGED transport
       ELSE hpc' = "raised" /\ transport' = "down" /\ UNCHANGED outH
    /\ UNCHANGED <<closed, inlog, camVars, bridgeVars, loopState, engVars>>

StartOutcomes == {"ok", "early", "late", "FAILURE"}

\* lines 311-315: camera.start() and, when it raises, the error message, which is
\* sent outside the try/finally that stops the camera
StartCamera(res) ==
    /\ hpc = "start"
    /\ LET c == start(Cam, res)
       IN  /\ SetCam(c)
           /\ IF c.exc = "none"
              THEN hpc' = "loop" /\ UNCHANGED <<outH, transport>>
              ELSE IF transport = "up"
                   THEN /\ outH' = Append(outH, Sent(Msg("error", "Camera start failed", 0),
                                                     "handler", 0, FALSE))
                        /\ hpc' = "loop" /\ UNCHANGED transport
                   ELSE hpc' = "raised" /\ transport' = "down" /\ UNCHANGED outH
    /\ UNCHANGED <<closed, inlog, bridgeVars, loopState, ocb, gather, negFired,
                   busPosted, engRaised>>

\* lines 319-341: what one TEXT frame does to the camera, the reply it sends and
\* whether an exception leaves the loop body
Dispatch(c, m) ==
    CASE m.type = "nondict" -> [cam |-> c, reply |-> "none", raised |-> TRUE]
      [] m.type = "answer" ->
            LET r == handle_sdp_answer(c, m.sdp)
            IN  [cam |-> [r EXCEPT !.exc = "none"],
                 reply |-> IF r.exc # "none" THEN "SDP answer error" ELSE "none",
                 raised |-> FALSE]
      [] m.type = "ice" ->
            IF ~Truthy(m.cand) THEN [cam |-> c, reply |-> "none", raised |-> FALSE]
            ELSE IF IntOf(m.mline) < 0
                 THEN [cam |-> c, reply |-> "none", raised |-> TRUE]
                 ELSE LET r == handle_ice_candidate(c, m.cand, IntOf(m.mline))
                      IN  [cam |-> [r EXCEPT !.exc = "none"], reply |-> "none",
                           raised |-> r.exc # "none"]
      [] m.type = "ping" -> [cam |-> c, reply |-> "pong", raised |-> FALSE]
      [] m.type = "ready" -> [cam |-> renegotiate(c), reply |-> "none", raised |-> FALSE]

ReplyMsg(r) == IF r = "pong" THEN Msg("pong", "", 0) ELSE Msg("error", r, 0)

\* One iteration of the async for. lost: the transport went away while the frame
\* was queued, so the reply's send_json raises. An exception runs the finally
\* (camera.stop()) and leaves handle_ws.
Receive(m, lost) ==
    /\ hpc = "loop" /\ transport = "up" /\ Events < MaxEvents
    /\ LET d == Dispatch(Cam, m)
           exits == d.raised \/ (d.reply # "none" /\ lost)
       IN  /\ lost => d.reply # "none"
           /\ inlog' = Append(inlog, m)
           /\ outH' = IF d.reply # "none" /\ ~lost
                      THEN Append(outH, Sent(ReplyMsg(d.reply), "handler", 0, FALSE))
                      ELSE outH
           /\ transport' = IF exits THEN "down" ELSE transport
           /\ hpc' = IF exits THEN "raised" ELSE "loop"
           /\ SetCam(IF exits THEN stop(d.cam) ELSE d.cam)
    /\ UNCHANGED <<closed, bridgeVars, loopState, ocb, gather, negFired, busPosted,
                   engRaised>>

\* the iteration ends on CLOSE/CLOSED, after an ERROR frame (lines 342-343) when
\* err; aiohttp has set ws.closed by then; finally: camera.stop(); return ws
ReceiveClose(err) ==
    /\ hpc = "loop" /\ transport = "down"
    /\ closed' = TRUE /\ hpc' = "returned"
    /\ SetCam(stop(Cam))
    /\ UNCHANGED <<transport, inlog, outH, bridgeVars, loopState, ocb, gather,
                   negFired, busPosted, engRaised>>

\* the handler task is cancelled while it waits for a frame (server shutdown)
Cancel ==
    /\ hpc = "loop"
    /\ hpc' = "raised" /\ transport' = "down"
    /\ SetCam(stop(Cam))
    /\ UNCHANGED <<closed, inlog, outH, bridgeVars, loopState, ocb, gather,
                   negFired, busPosted, engRaised>>

\* ------------------------------------------------------------ environment
\* the peer closes or the connection breaks
ConnectionLost ==
    /\ transport = "up" /\ hpc \in {"hello", "start", "loop"}
    /\ transport' = "down"
    /\ UNCHANGED <<hpc, closed, inlog, outH, camVars, bridgeVars, loopState, engVars>>

\* the asyncio loop runs the next scheduled coroutine while handle_ws is suspended
LoopRun ==
    /\ loopState = "running" /\ ready # <<>>
    /\ hpc \in {"loop", "returned", "raised"}
    /\ outB' = send_coro(Head(ready))
    /\ ready' = Tail(ready)
    /\ UNCHANGED <<hpc, transport, closed, inlog, outH, camVars, nHanded, loopState,
                   engVars>>

\* line 350: web.run_app returns after the handlers have finished; the loop is closed
Shutdown ==
    /\ loopState = "running" /\ hpc \in {"returned", "raised"}
    /\ loopState' = "closed" /\ ready' = <<>>
    /\ UNCHANGED <<hpc, chanVars, camVars, nHanded, outB, engVars>>

\* ------------------------------------------------------- engine callbacks
EngineLive == engState \in {"PLAYING", "FAILED"}

\* lines 221-223, on the engine's thread. webrtcbin raises the signal for the
\* transceiver that the one sink pad request (lines 161-164) creates: once.
on_negotiation_needed ==
    /\ EngineLive /\ negFired = 0
    /\ negFired' = negFired + 1
    /\ LET c == create_and_send_offer(Cam, "engine")
       IN  cmdsEng' = c.cmdsEng /\ promises' = c.promises
    /\ UNCHANGED <<hpc, chanVars, camVars, bridgeVars, loopState, engState, cmds, ocb,
                   gather, busPosted, engRaised>>

ReplyKinds == {"ok", "noreply"}

\* the engine gathers local candidates once, after the first local description
GatheringStarted ==
    \E i \in 1..Len(cmdsEng) :
        cmdsEng[i].cmd = "set-local-description" /\ cmdsEng[i].arg = "offer"

\* on_offer_created that does not apply the offer as local description
on_offer_created_reply_nolocal(res) ==
    /\ promises > 0 /\ ocb.st = "idle"
    /\ promises' = promises - 1
    /\ ocb' = [st |-> IF res = "ok" THEN "send_offer" ELSE "send_error", n |-> ocb.n + 1]
    /\ UNCHANGED <<hpc, chanVars, camVars, bridgeVars, loopState, engState, cmds,
                   cmdsEng, gather, negFired, busPosted, engRaised>>

\* lines 205-210: the promise's change func up to the emit of
\* set-local-description, or ("noreply": the promise was not answered with an
\* offer) up to the exception that reply.get_value raises.
on_offer_created_reply(res) ==
    /\ promises > 0 /\ ocb.st = "idle"
    /\ promises' = promises - 1
    /\ cmdsEng' = IF res = "ok"
                  THEN Append(cmdsEng, Cmd("set-local-description", "engine", "offer",
                                           ocb.n + 1))
                  ELSE cmdsEng
    /\ gather' = IF res = "ok" /\ EngineLive /\ ~GatheringStarted THEN MaxLocalIce
                 ELSE gather
    /\ ocb' = [st |-> IF res = "ok" THEN "send_offer" ELSE "send_error", n |-> ocb.n + 1]
    /\ UNCHANGED <<hpc, chanVars, camVars, bridgeVars, loopState, engState, cmds,
                   negFired, busPosted, engRaised>>

\* lines 211-215: hand the offer, or the error, to the bridge
on_offer_created_send ==
    /\ ocb.st # "idle"
    /\ send_ws(IF ocb.st = "send_offer" THEN Msg("offer", "sdp", ocb.n)
               ELSE Msg("error", "Offer error", ocb.n))
    /\ ocb' = [ocb EXCEPT !.st = "idle"]
    /\ UNCHANGED <<hpc, chanVars, camVars, loopState, engState, cmds, cmdsEng,
                   promises, gather, negFired, busPosted>>

\* lines 225-226
on_ice_candidate ==
    /\ gather > 0
    /\ gather' = gather - 1
    /\ send_ws(Msg("ice", "local", gather))
    /\ UNCHANGED <<hpc, chanVars, camVars, loopState, engState, cmds, cmdsEng,
                   promises, ocb, negFired, busPosted>>

\* The engine posts an ERROR on the pipeline's bus (a device failure, a stream
\* error). The watch of lines 175-177 is a signal watch on the default GLib main
\* context.
bus_post ==
    /\ EngineLive /\ Events < MaxEvents
    /\ busPosted' = busPosted + 1
    /\ UNCHANGED <<hpc, chanVars, camVars, bridgeVars, loopState, engState, cmds,
                   cmdsEng, promises, ocb, gather, negFired, engRaised>>

\* Whether something iterates the default GLib main context: server.py creates
\* no GLib.MainLoop and never iterates the context; run() (lines 349-350) runs
\* the asyncio loop only.
MainContextIterated == FALSE

\* lines 246-257: the "message" callback, which the signal watch calls from the
\* main context when it dispatches a posted message. ERROR is reported through
\* the bridge; WARNING and EOS are only printed.
on_bus_message(t) ==
    /\ MainContextIterated /\ busPosted > 0
    /\ busPosted' = busPosted - 1
    /\ IF t = "ERROR"
       THEN send_ws(Msg("error", "GStreamer ERROR", 0))
       ELSE UNCHANGED <<bridgeVars, engRaised>>
    /\ UNCHANGED <<hpc, chanVars, camVars, loopState, engState, cmds, cmdsEng,
                   promises, ocb, gather, negFired>>

\* ------------------------------------------------------------------ spec
InitWith(c) ==
    /\ cfg = c /\ enc = NoEncoder
    /\ hpc = "hello"
    /\ pipeline = "None" /\ webrtc = "None"
    /\ transport = "up" /\ closed = FALSE
    /\ inlog = <<>> /\ outH = <<>> /\ outB = <<>>
    /\ ready = <<>> /\ loopState = "running" /\ nHanded = 0
    /\ engState = "absent" /\ cmds = <<>> /\ cmdsEng = <<>> /\ promises = 0
    /\ ocb = [st |-> "idle", n |-> 0]
    /\ gather = 0 /\ negFired = 0 /\ busPosted = 0 /\ engRaised = FALSE

Init == InitWith(DefaultConfig)

HandlerNext ==
    \/ SendHello
    \/ \E res \in StartOutcomes : StartCamera(res)
    \/ \E m \in Frames, lost \in BOOLEAN : Receive(m, lost)
    \/ \E err \in BOOLEAN : ReceiveClose(err)
    \/ Cancel

EngineNext ==
    \/ on_negotiation_needed
    \/ \E res \in ReplyKinds : on_offer_created_reply(res)
    \/ on_offer_created_send
    \/ on_ice_candidate
    \/ bus_post

Next ==
    \/ HandlerNext
    \/ EngineNext
    \/ LoopRun
    \/ Shutdown
    \/ ConnectionLost

Spec == Init /\ [][Next]_vars

\* The start of a session under every configuration: the greeting and
\* camera.start(), which builds the pipeline and with it the encoder.
InitEnc == \E c \in Configs : InitWith(c)

NextEnc ==
    \/ SendHello
    \/ \E res \in StartOutcomes : StartCamera(res)

SpecEnc == InitEnc /\ [][NextEnc]_vars

\* ------------------------------------------------------------ observations
NCmd(log, name) == Count(log, LAMBDA c : c.cmd = name)
NOut(log, t) == Count(log, LAMBDA m : m.type = t)
NIn(t) == Count(inlog, LAMBDA f : f.type = t)

\* a pipeline was assigned to self.pipeline at some point of the session
Built == engState \in {"PLAYING", "FAILED", "NULL"}

\* handle_ws receives frame f in this step
RecvStep(f) == inlog' = Append(inlog, f)

CreateOffers == NCmd(cmds, "create-offer") + NCmd(cmdsEng, "create-offer")
OfferErrors == Count(outB, LAMBDA m : m.type = "error" /\ m.text = "Offer error")

\* nothing of the negotiation is in flight and the channel has been open throughout
Settled ==
    /\ promises = 0 /\ ocb.st = "idle" /\ ready = <<>>
    /\ hpc = "loop" /\ ChannelOpen

\* ---------------------------------------------------------------- C1
\* C1 as stated: once nothing is in flight on an open channel, the number of
\* 'offer' messages sent equals the number of triggers (on-negotiation-needed
\* signals plus 'ready' frames), whatever the state of the session.
C1_OneOfferPerTrigger ==
    Settled => NOut(outB, "offer") = negFired + NIn("ready")

\* C1 amended: every on-negotiation-needed signal, and every 'ready' received
\* while the session holds a pipeline, issues exactly one create-offer (a 'ready'
\* without a pipeline issues none); a create-offer never yields more than one
\* message, and once nothing is in flight on an open channel each create-offer
\* has yielded exactly one message: an 'offer' when its completion applied the
\* local description, an 'Offer error' otherwise.
C1_OffersPerCreateOffer ==
    /\ NCmd(cmdsEng, "create-offer") = negFired
    /\ NCmd(cmds, "create-offer") = IF Built THEN NIn("ready") ELSE 0
    /\ NOut(outB, "offer") <= NCmd(cmdsEng, "set-local-description")
    /\ NOut(outB, "offer") + OfferErrors <= CreateOffers
    /\ Settled => /\ NOut(outB, "offer") = NCmd(cmdsEng, "set-local-description")
                  /\ NOut(outB, "offer") + OfferErrors = CreateOffers

\* a 'ready' received after an answer was applied has yielded a second offer
C1_SecondOfferAfterAnswer ==
    /\ Len(inlog) = 2
    /\ inlog[1] = Frame("answer", "ok", "", "") /\ inlog[2].type = "ready"
    /\ NCmd(cmds, "set-remote-description") = 1
    /\ NOut(outB, "offer") = 2

\* ---------------------------------------------------------------- C2
\* C2: once a pipeline has been built, handle_ws has stopped it exactly once
\* (one set_state(NULL)) by the time it returns or raises.
C2_StoppedExactlyOnce ==
    (hpc \in {"returned", "raised"} /\ Built) =>
        Count(cmds, LAMBDA c : c.cmd = "set_state" /\ c.arg = "NULL") = 1

\* ---------------------------------------------------------------- C3
AddIce ==
    LET sel == SelectSeq(cmds, LAMBDA c : c.cmd = "add-ice-candidate")
    IN  [i \in 1..Len(sel) |-> <<sel[i].arg, sel[i].n>>]

IceIn(P(_)) ==
    LET sel == SelectSeq(inlog, LAMBDA f : f.type = "ice" /\ P(f))
    IN  [i \in 1..Len(sel) |-> <<sel[i].cand, IntOf(sel[i].mline)>>]

AnyFrame(f) == TRUE

\* the 'ice' frames that lines 336-337 and the emit let through
Forwardable(f) == Truthy(f.cand) /\ IntOf(f.mline) >= 0 /\ EmitAccepts(f.cand)

\* C3 as stated: while the pipeline exists, the add-ice-candidate emissions are
\* the inbound 'ice' frames, all of them, in order.
C3_AllIceForwarded ==
    webrtc # "None" => AddIce = IceIn(AnyFrame)

\* C3 amended: in a session whose pipeline was built, the add-ice-candidate
\* emissions are, in receive order and with duplicates kept, the inbound 'ice'
\* frames that carry a non-empty candidate and whose handling did not raise
\* (int(sdpMLineIndex) and the emit both accepted the values); a frame with an
\* empty or missing candidate is skipped, and a frame whose handling raises is
\* not forwarded and ends the session. Without a pipeline nothing is emitted.
C3_ForwardableIceInOrder ==
    AddIce = IF Built THEN IceIn(Forwardable) ELSE <<>>

\* the same candidate was received twice and forwarded twice
C3_DuplicateForwarded ==
    /\ Len(inlog) = 2 /\ inlog[1] = inlog[2]
    /\ AddIce = <<<<"a", 0>>, <<"a", 0>>>>

\* ---------------------------------------------------------------- C4
BadAnswer == Frame("answer", "garbage", "", "")
SdpError == Sent(Msg("error", "SDP answer error", 0), "handler", 0, FALSE)

\* C4 as stated: in every session state an unparsable answer sends exactly one
\* 'error', emits nothing to the engine, leaves the handles alone and the loop
\* running.
C4_BadAnswerOneError ==
    [][RecvStep(BadAnswer) =>
          /\ outH' = Append(outH, SdpError)
          /\ hpc' = "loop"
          /\ UNCHANGED <<cmds, cmdsEng, pipeline, webrtc>>]_vars

\* C4 amended: an unparsable answer never emits set-remote-description. With a
\* pipeline it sends exactly one 'error' and leaves the handles unchanged and
\* the loop running, unless the transport is gone, in which case the send
\* raises and the session is torn down; without a pipeline it is ignored and no
\* 'error' is sent.
C4_BadAnswerHandled ==
    [][RecvStep(BadAnswer) =>
          /\ NCmd(cmds', "set-remote-description") = NCmd(cmds, "set-remote-description")
          /\ cmdsEng' = cmdsEng
          /\ IF webrtc = "None"
             THEN outH' = outH /\ hpc' = "loop" /\ UNCHANGED <<cmds, pipeline, webrtc>>
             ELSE IF transport' = "up"
             THEN /\ outH' = Append(outH, SdpError) /\ hpc' = "loop"
                  /\ UNCHANGED <<cmds, pipeline, webrtc>>
             ELSE /\ outH' = outH /\ hpc' = "raised"
                  /\ pipeline' = "None" /\ webrtc' = "None"]_vars

\* an unparsable answer was received with a pipeline and answered by 'error'
C4_ErrorSent ==
    /\ hpc = "loop" /\ webrtc # "None"
    /\ inlog # <<>> /\ inlog[Len(inlog)] = BadAnswer
    /\ outH # <<>> /\ outH[Len(outH)] = SdpError
    /\ NCmd(cmds, "set-remote-description") = 0

\* ---------------------------------------------------------------- C5
NegotiationCmds == {"create-offer", "set-local-description"}

StartFailed == \E i \in 1..Len(outH) : outH[i].text = "Camera start failed"

\* C6: after camera.start() failed and its 'error' was sent, the pipeline is
\* absent for the rest of the session: both handles are None and the handler
\* issues no engine command for any later 'answer', 'ice' or 'ready'.
C6_FailedStartPipelineAbsent ==
    (StartFailed /\ hpc = "loop") =>
        /\ pipeline = "None" /\ webrtc = "None"
        /\ \A i \in 1..Len(cmds) : cmds[i].cmd = "set_state"

\* ---------------------------------------------------------------- C7
\* the hand-over numbers of a sequence of bridged messages are increasing
InHandOverOrder(q) == \A i, j \in 1..Len(q) : i < j => q[i].h < q[j].h

\* C7: the messages the bridge has sent on the channel, followed by the ones
\* still waiting on the loop, are in hand-over order; a callback that has a
\* message to hand over can always do so, whatever is waiting on the loop or
\* whatever the handler is doing, and its hand-over step sends nothing itself.
C7_BridgeFifoNonBlocking ==
    /\ [](/\ InHandOverOrder(outB \o ready)
          /\ ocb.st # "idle" => ENABLED on_offer_created_send
          /\ gather > 0 => ENABLED on_ice_candidate)
    /\ [][EngineNext => outB' = outB]_vars

\* three messages of one session went through the bridge, the offer first
C7_ThreeBridgedInOrder ==
    /\ Len(outB) = 3
    /\ outB[1].type = "offer" /\ outB[2].type = "ice" /\ outB[3].type = "error"

\* ---------------------------------------------------------------- C8
\* C8: a message handed to the bridge after the channel closed, or after the
\* loop shut down, is never sent, and the hand-over raises nothing in the
\* engine's thread.
C8_LateHandOverDropped ==
    /\ \A i \in 1..Len(outB) : ~outB[i].late
    /\ ~engRaised

\* ---------------------------------------------------------------- C9
\* the engine refuses the values of this 'ice' frame
EmitFails(f) ==
    f.type = "ice" /\ Truthy(f.cand) /\ IntOf(f.mline) >= 0 /\ ~EmitAccepts(f.cand)

\* C9: when an engine operation fails while an inbound 'answer' or 'ice' is
\* handled, exactly one 'error' is sent and the loop keeps running; when an offer-created completion fails, exactly one 'error' is
\* handed to the bridge.
C9_EngineFailureBecomesError ==
    [][/\ (\E f \in Frames :
              /\ RecvStep(f) /\ webrtc # "None"
              /\ (f = BadAnswer /\ transport' = "up") \/ EmitFails(f))
          => /\ hpc' = "loop"
             /\ Len(outH') = Len(outH) + 1
             /\ outH'[Len(outH')].type = "error"
       /\ (ocb.st = "send_error" /\ ocb'.st = "idle" /\ loopState = "running")
          => /\ Len(ready') = Len(ready) + 1
             /\ ready'[Len(ready')].msg.type = "error"]_vars

\* ---------------------------------------------------------------- C10
\* C10: an 'ice' frame received while the session has no pipeline raises
\* nothing, sends nothing, reaches no engine and leaves the loop running.
C10_IceWithoutPipelineDropped ==
    [][(\E f \in IceFrames : RecvStep(f) /\ webrtc = "None")
          => /\ hpc' = "loop"
             /\ UNCHANGED <<outH, outB, ready, cmds, cmdsEng, pipeline, webrtc>>]_vars

\* ---------------------------------------------------------------- C11
NullTransitions(log) == Count(log, LAMBDA c : c.cmd = "set_state" /\ c.arg = "NULL")

C12_BusErrorReported ==
    /\ [](busPosted > 0 => ENABLED on_bus_message("ERROR"))
    /\ [][busPosted' > busPosted =>
             UNCHANGED <<hpc, pipeline, webrtc, engState, cmds, transport, closed>>]_vars

\* ---------------------------------------------------------------- C13
\* no pipeline object of this session was ever taken out of NULL: none was
\* built yet, or build_pipeline raised
Unbuilt == engState \in {"absent", "orphan"}

C14_HelloFirst ==
    /\ outH # <<>> => outH[1].type = "hello"
    /\ NOut(outH, "hello") <= 1
    /\ outH = <<>> =>
          /\ outB = <<>> /\ ready = <<>> /\ nHanded = 0
          /\ engState = "absent" /\ cmds = <<>> /\ cmdsEng = <<>>

\* after 'hello' the handler sent a 'pong' and the bridge an 'offer' and an 'ice'
C14_HelloThenOthers ==
    /\ Len(outH) = 2 /\ outH[1].type = "hello" /\ outH[2].type = "pong"
    /\ NOut(outB, "offer") = 1 /\ NOut(outB, "ice") = 1

\* ---------------------------------------------------------------- C15
\* C15 as stated: the software encoder's bitrate parameter is
\* max(1, floor(bitrate / 1000)) and the hardware encoder's is the configured
\* bitrate, for the configured bitrate whatever it is.
C15_EncoderBitrate ==
    /\ enc.path = "sw" => enc.set /\ enc.bitrate = Max(1, cfg.bitrate \div 1000)
    /\ enc.path = "hw" => enc.set /\ enc.bitrate = cfg.bitrate

\* C15 amended: for a configured bitrate above 0 the software encoder is given
\* max(1, floor(bitrate / 1000)), that is the number of whole thousands in it
\* and 1 below one thousand (2,500,000 gives 2500, 500 gives 1), and the
\* hardware encoder is given the bitrate unchanged; for a bitrate of 0 or
\* less no bitrate is given to either encoder. The hardware path is taken
\* when software is not forced and the host has the hardware encoder.
C15_EncoderBitrateWhenPositive ==
    enc.path # "none" =>
        /\ enc.path = "hw" <=> (~cfg.force_sw /\ cfg.hw)
        /\ enc.set <=> cfg.bitrate > 0
        /\ (enc.set /\ enc.path = "hw") => enc.bitrate = cfg.bitrate
        /\ (enc.set /\ enc.path = "sw") =>
              /\ enc.bitrate >= 1
              /\ cfg.bitrate >= 1000 =>
                    /\ enc.bitrate * 1000 <= cfg.bitrate
                    /\ cfg.bitrate < (enc.bitrate + 1) * 1000
              /\ cfg.bitrate < 1000 => enc.bitrate = 1
              /\ cfg.bitrate = 2500000 => enc.bitrate = 2500

\* a bitrate of 500 on the software path gave the floor of 1
C15_SoftwareFloor ==
    /\ cfg.bitrate = 500 /\ cfg.force_sw
    /\ enc.path = "sw" /\ enc.set /\ enc.bitrate = 1
    /\ hpc = "loop"

\* ---------------------------------------------------------------- C16
\* on_offer_created of round k has emitted set-local-description
LocalSet(k) ==
    \E i \in 1..Len(cmdsEng) :
        cmdsEng[i].cmd = "set-local-description" /\ cmdsEng[i].n = k

\* C16: every 'offer' that on_offer_created is about to hand over, that waits
\* on the loop or that was sent belongs to a round whose set-local-description
\* was emitted before; a round whose completion failed before that emit yields
\* no 'offer' but an 'Offer error'.
C16_OfferAfterSetLocal ==
    /\ ocb.st = "send_offer" => LocalSet(ocb.n)
    /\ ocb.st = "send_error" => ~LocalSet(ocb.n)
    /\ \A i \in 1..Len(ready) :
          /\ ready[i].msg.type = "offer" => LocalSet(ready[i].msg.n)
          /\ ready[i].msg.text = "Offer error" => ~LocalSet(ready[i].msg.n)
    /\ \A i \in 1..Len(outB) :
          /\ outB[i].type = "offer" => LocalSet(outB[i].n)
          /\ outB[i].text = "Offer error" => ~LocalSet(outB[i].n)

\* the first round failed and sent 'Offer error', the second sent its offer
C16_ErrorThenOffer ==
    /\ Len(outB) = 2
    /\ outB[1].text = "Offer error" /\ outB[1].n = 1
    /\ outB[2].type = "offer" /\ outB[2].n = 2
    /\ LocalSet(2) /\ ~LocalSet(1)

\* ---------------------------------------------------------------- C17
\* C17: an answer is applied (set-remote-description) only while an offer is
\* outstanding: more offers were sent on the channel than answers applied.
C17_AnswerOnlyWhenOfferSent ==
    [][NCmd(cmds', "set-remote-description") > NCmd(cmds, "set-remote-description")
          => NOut(outB, "offer") > NCmd(cmds, "set-remote-description")]_vars

\* ---------------------------------------------------------------- C18
\* the round whose set-local-description started the gathering of candidates
GatherRound ==
    LET sel == SelectSeq(cmdsEng, LAMBDA c : c.cmd = "set-local-description")
    IN  IF sel = <<>> THEN 0 ELSE sel[1].n

\* C18: when _on_ice_candidate hands a local candidate to the bridge, the
\* 'offer' of the round that started the gathering has been handed over.
C18_OfferBeforeLocalIce ==
    [][gather' < gather => ~(ocb.st = "send_offer" /\ ocb.n = GatherRound)]_vars

\* ---------------------------------------------------------------- C19
\* C19: once stop() has set the pipeline to NULL, no engine command is issued
\* and no 'offer' or 'ice' is sent on the channel.
C19_NothingAfterStop ==
    [][engState = "NULL" =>
          /\ cmds' = cmds /\ cmdsEng' = cmdsEng
          /\ NOut(outB', "offer") = NOut(outB, "offer")
          /\ NOut(outB', "ice") = NOut(outB, "ice")]_vars

\* ---------------------------------------------------------------- C20
\* C20: between operations self.pipeline is None exactly when self.webrtc is
\* None, and the handles are set exactly while a built pipeline has not been
\* stopped; they are assigned only in a session that has built nothing yet,
\* and after stop() they stay None.
C20_HandlesTogether ==
    /\ []((pipeline = "None") <=> (webrtc = "None"))
    /\ []((pipeline # "None") <=> EngineLive)
    /\ [][(pipeline = "None" /\ pipeline' # "None") => engState = "absent"]_vars
    /\ [][engState = "NULL" =>
             pipeline' = "None" /\ webrtc' = "None" /\ engState' = "NULL"]_vars

\* a pipeline was built, used and stopped: both handles are None again
C20_BuiltThenStopped ==
    /\ engState = "NULL" /\ hpc = "returned"
    /\ pipeline = "None" /\ webrtc = "None"
    /\ NCmd(cmds, "add-ice-candidate") = 1

====
